---- MODULE Spec2Model ----
(***************************************************************************)
(* Multi-source resolution and fallback of napcet/Spotify_Downloader:      *)
(* the match scorers of the Deezer and YouTube sources and the ordered     *)
(* fallback loop of MultiSourceDownloader.download.                        *)
(***************************************************************************)
EXTENDS Integers, Sequences, FiniteSets, TLC

VARIABLES
    source_priority,  \* MultiSourceDownloader.source_priority (list of names)
    sources,          \* keys of MultiSourceDownloader.sources, insertion order
    pc,               \* position of main / download
    track,            \* the Spotify track download() is working on
    idx,              \* position of the for loop in source_priority
    results,          \* candidates returned by the current source's search
    scored,           \* scored_results of _find_best_match, after the sort
    match,            \* result of _find_best_match: <<>> (None) or <<c>>
    result,           \* what download() returned: <<path>>, or <<>> for None
    calls,            \* log of the source calls made for the current track
    tracks,           \* main: the tracks fetched from the catalog
    max_workers,      \* download.max_concurrent, the size of the thread pool
    task,             \* the download_track task of each track (its locals)
    completed,        \* ProgressDisplay.completed
    failed,           \* ProgressDisplay.failed
    skipped,          \* ProgressDisplay.skipped
    failed_tracks,    \* ProgressDisplay.failed_tracks
    disk,             \* paths of the audio files under output_dir
    tracker,          \* ids of the tracks DownloadTracker has marked
    ledger,           \* .failed_downloads.json: <<>> (absent) or <<content>>
    embed_metadata,   \* MetadataEmbedder.embed_metadata (metadata.embed_metadata)
    root_level,       \* logging.getLogger().level, the level of the root logger
    retry,            \* the locals of retry_failed_downloads
    albuns            \* albuns.txt and the locals of process_album_list

\* the state of MultiSourceDownloader.download and of its caller
chain_vars == <<source_priority, sources, pc, track, idx, results, scored, match,
                result, calls>>

\* the state of a batch run
batch_vars == <<tracks, max_workers, embed_metadata, task, completed, failed,
                skipped, failed_tracks, disk, tracker, ledger, root_level>>

\* the state of the entry points --retry-failed and --list-albuns
entry_vars == <<retry, albuns>>

vars == <<chain_vars, batch_vars, entry_vars>>

-----------------------------------------------------------------------------
(* Bounds of the model *)

\* longest source_priority list drawn from the configuration
MaxPriority == 2
\* longest candidate list a search returns
MaxResults == 2

-----------------------------------------------------------------------------
(* Strings: str.lower() and the `in` operator of Python *)

UpperCase == "ABCDEFGHIJKLMNOPQRSTUVWXYZ"
LowerCase == "abcdefghijklmnopqrstuvwxyz"

\* one character of str.lower()
LowerChar(c) ==
    IF \E i \in 1..Len(UpperCase) : SubSeq(UpperCase, i, i) = c
    THEN LET i == CHOOSE j \in 1..Len(UpperCase) : SubSeq(UpperCase, j, j) = c
         IN  SubSeq(LowerCase, i, i)
    ELSE c

RECURSIVE Lower(_)
\* str.lower()
Lower(s) ==
    IF Len(s) = 0 THEN ""
    ELSE Lower(SubSeq(s, 1, Len(s) - 1)) \o LowerChar(SubSeq(s, Len(s), Len(s)))

\* Python `sub in s` on strings
Contains(s, sub) ==
    \/ Len(sub) = 0
    \/ \E i \in 1..(Len(s) - Len(sub) + 1) : SubSeq(s, i, i + Len(sub) - 1) = sub

\* abs()
Abs(n) == IF n < 0 THEN -n ELSE n

\* max()
Max(a, b) == IF a >= b THEN a ELSE b

-----------------------------------------------------------------------------
(* Sorting: list.sort(key=lambda x: x[0], reverse=True) *)

\* InsertDesc placing x before the entries of equal score
InsertDescUnstable(s, x) ==
    LET n == Cardinality({i \in 1..Len(s) : s[i].score > x.score})
    IN  SubSeq(s, 1, n) \o <<x>> \o SubSeq(s, n + 1, Len(s))

\* x placed into the descending list s behind every entry whose score is not
\* smaller than its own (entries of equal score keep their order)
InsertDesc(s, x) ==
    LET n == Cardinality({i \in 1..Len(s) : s[i].score >= x.score})
    IN  SubSeq(s, 1, n) \o <<x>> \o SubSeq(s, n + 1, Len(s))

RECURSIVE SortDesc(_)
\* the stable descending sort Python's list.sort(reverse=True) performs
SortDesc(s) ==
    IF s = <<>> THEN <<>>
    ELSE InsertDesc(SortDesc(SubSeq(s, 1, Len(s) - 1)), s[Len(s)])

-----------------------------------------------------------------------------
(* DeemixClient._find_best_match, the scorer of the Deezer source *)

\* title part of the Deezer score
DeemixTitleScore(t, c) ==
    LET spotify_name == Lower(t.name)
        deezer_title == Lower(c.title)
    IN  IF spotify_name = deezer_title THEN 50
        ELSE IF Contains(deezer_title, spotify_name)
                \/ Contains(spotify_name, deezer_title) THEN 30
        ELSE 0

\* artist part of the Deezer score
DeemixArtistScore(t, c) ==
    LET spotify_artist == Lower(t.artist)
        deezer_artist == Lower(c.artist)
    IN  IF spotify_artist = deezer_artist THEN 50
        ELSE IF Contains(deezer_artist, spotify_artist)
                \/ Contains(spotify_artist, deezer_artist) THEN 30
        ELSE 0

\* abs(spotify_duration - result['duration']) in milliseconds
\* (spotify_duration = duration_ms / 1000 is a float of seconds)
DurationDiffMs(t, c) == Abs(t.duration_ms - 1000 * c.duration)

\* duration part of the score in DeemixClient
DeemixDurationScore(t, c) ==
    IF DurationDiffMs(t, c) <= 5 * 1000 THEN 20 ELSE 0

\* duration part of the score in DeezerClient (the client the chain does not use)
DeezerClientDurationScore(t, c) ==
    IF DurationDiffMs(t, c) <= 5 * 1000 THEN 20
    ELSE IF DurationDiffMs(t, c) <= 10 * 1000 THEN 10
    ELSE 0

\* the score DeemixClient._find_best_match gives one result
DeemixScore(t, c) ==
    DeemixTitleScore(t, c) + DeemixArtistScore(t, c) + DeemixDurationScore(t, c)

-----------------------------------------------------------------------------
(* YouTubeSearcher._find_best_match, the scorer of the YouTube source.     *)
(* Its score is a float: 20 - abs(video_duration - track_duration) has     *)
(* millisecond digits. The model counts it in thousandths of a point.      *)

\* thousandths per point, and milliseconds per second (duration_ms / 1000)
Milli == 1000

\* youtube.min_duration_match (0.9) and youtube.max_duration_match (1.1),
\* in thousandths
min_duration_match == 900
max_duration_match == 1100

\* youtube.prefer_official
prefer_official == TRUE

\* an entry of the result list that is None or empty (`if not result`)
NullEntry == [id |-> "", title |-> "", uploader |-> "", duration |-> 0]

\* min_duration_match <= video_duration / track_duration <= max_duration_match
DurationRatioOk(t, r) ==
    /\ min_duration_match * t.duration_ms <= Milli * Milli * r.duration
    /\ Milli * Milli * r.duration <= max_duration_match * t.duration_ms

\* duration part of the YouTube score
YtDurationScore(t, r) ==
    IF r.duration # 0 /\ DurationRatioOk(t, r)
    THEN 50 * Milli + Max(0, 20 * Milli - Abs(Milli * r.duration - t.duration_ms))
    ELSE 0

\* official-upload part of the YouTube score
YtOfficialScore(t, r) ==
    LET title_lower == Lower(r.title)
        uploader_lower == Lower(r.uploader)
        artist_lower == Lower(t.artist)
    IN  IF prefer_official
        THEN (IF Contains(title_lower, "official") \/ Contains(uploader_lower, "official")
              THEN 30 * Milli ELSE 0)
             + (IF Contains(uploader_lower, artist_lower) THEN 20 * Milli ELSE 0)
             + (IF Contains(uploader_lower, "vevo") THEN 15 * Milli ELSE 0)
        ELSE 0

\* title-relevance part of the YouTube score
YtTitleScore(t, r) ==
    LET title == Lower(r.title)
    IN  (IF Contains(title, Lower(t.name)) THEN 25 * Milli ELSE 0)
        + (IF Contains(title, Lower(t.artist)) THEN 25 * Milli ELSE 0)

\* the words that mark a version other than the original
VersionWords == {"live", "remix", "cover", "karaoke", "instrumental"}

\* penalty for live versions, remixes, covers
YtVersionPenalty(t, r) ==
    IF ~Contains(Lower(t.name), "original")
       /\ \E word \in VersionWords : Contains(Lower(r.title), word)
    THEN 30 * Milli ELSE 0

\* the score YouTubeSearcher._find_best_match gives one result, in thousandths
YtScore(t, r) ==
    YtDurationScore(t, r) + YtOfficialScore(t, r) + YtTitleScore(t, r)
        - YtVersionPenalty(t, r)

-----------------------------------------------------------------------------
(* Output paths of the two sources *)

\* download.output_dir
output_dir == "downloads"

\* invalid_chars of _sanitize_filename
InvalidChars == "<>:\"/\\|?*"

RECURSIVE ReplaceInvalid(_)
\* every invalid character replaced by '_'
ReplaceInvalid(s) ==
    IF Len(s) = 0 THEN ""
    ELSE ReplaceInvalid(SubSeq(s, 1, Len(s) - 1))
         \o (IF Contains(InvalidChars, SubSeq(s, Len(s), Len(s))) THEN "_"
             ELSE SubSeq(s, Len(s), Len(s)))

RECURSIVE Strip(_)
\* str.strip('. ')
Strip(s) ==
    IF Len(s) = 0 THEN ""
    ELSE IF SubSeq(s, 1, 1) \in {".", " "} THEN Strip(SubSeq(s, 2, Len(s)))
    ELSE IF SubSeq(s, Len(s), Len(s)) \in {".", " "} THEN Strip(SubSeq(s, 1, Len(s) - 1))
    ELSE s

\* Downloader._sanitize_filename and DeemixClient._sanitize_filename
SanitizeFilename(s) == Strip(ReplaceInvalid(s))

Digits == "0123456789"

\* the decimal digit d as a character
Digit(d) == SubSeq(Digits, d + 1, d + 1)

\* '{track_number:02d}' for the track numbers of an album
Format02d(n) ==
    (IF n >= 100 THEN Digit((n \div 100) % 10) ELSE "")
    \o Digit((n \div 10) % 10) \o Digit(n % 10)

\* position of the last '.' of a file name, 0 when there is none (str.rfind)
LastDot(name) ==
    LET dots == {i \in 1..Len(name) : SubSeq(name, i, i) = "."}
    IN  IF dots = {} THEN 0 ELSE CHOOSE i \in dots : \A j \in dots : j <= i

\* Path.with_suffix on the last component of a path: the part from the last
\* dot on is a suffix unless the dot is the first or the last character
WithSuffix(name, suffix) ==
    LET i == LastDot(name)
    IN  IF 1 < i /\ i < Len(name) THEN SubSeq(name, 1, i - 1) \o suffix
        ELSE name \o suffix

\* download.audio_format, through Downloader._get_codec
codec == "mp3"

\* Downloader._get_output_path: directory and file name (no extension)
DownloaderOutputDir(t) ==
    output_dir \o "/" \o SanitizeFilename(t.artist) \o "/" \o SanitizeFilename(t.album)

DownloaderOutputName(t) ==
    Format02d(t.track_number) \o " - " \o SanitizeFilename(t.artist)
        \o " - " \o SanitizeFilename(t.name)

\* final_path of Downloader.download
DownloaderFinalPath(t) ==
    DownloaderOutputDir(t) \o "/" \o WithSuffix(DownloaderOutputName(t), "." \o codec)

\* DeemixClient._get_output_path
DeemixOutputPath(c) ==
    output_dir \o "/" \o SanitizeFilename(c.artist) \o "/" \o SanitizeFilename(c.album)
        \o "/" \o SanitizeFilename(c.title) \o ".flac"

-----------------------------------------------------------------------------
(* Inputs: tracks of the catalog, results of the sources, configurations *)

\* all sequences over S of length at most n
SeqsUpTo(S, n) == UNION {[1..k -> S] : k \in 0..n}

Track(name, artist, ms) ==
    [name |-> name, artist |-> artist, album |-> "MMLP2", duration_ms |-> ms,
     track_number |-> 7]

\* tracks as SpotifyClient returns them
Tracks ==
    { Track("Beautiful Pain", "Eminem", 245000),
      Track("Original Pain", "eminem", 245500) }

DeezerResult(id, title, artist, duration) ==
    [id |-> id, title |-> title, artist |-> artist, album |-> "MMLP2",
     duration |-> duration]

\* results of the Deezer search API (artist is result['artist']['name'])
DeezerResults ==
    { DeezerResult("d1", "Beautiful Pain", "Eminem", 246),
      DeezerResult("d2", "Beautiful Pain (Live)", "Eminem", 246),
      DeezerResult("d3", "Beautiful Pain", "EMINEM", 252),
      DeezerResult("d4", "Pain", "Eminem & Sia", 300),
      DeezerResult("d5", "Other", "Nobody", 100) }

YtResult(id, title, uploader, duration) ==
    [id |-> id, title |-> title, uploader |-> uploader, duration |-> duration]

\* entries of a YouTube search
YtResults ==
    { YtResult("y1", "Eminem - Beautiful Pain (Audio)", "EminemVEVO", 246),
      YtResult("y2", "Beautiful Pain (Live)", "fan", 246),
      YtResult("y3", "Official video", "someone", 0),
      YtResult("y4", "beautiful pain live", "fan2", 244),
      NullEntry }

\* what a call of a source's API does: it raises, returns nothing, or
\* returns a list of results
Responses(pool) ==
    {[kind |-> "raise", data |-> <<>>], [kind |-> "none", data |-> <<>>]}
    \cup {[kind |-> "ok", data |-> d] : d \in SeqsUpTo(pool, MaxResults)}

\* the responses of the two search APIs
DeezerResponses == Responses(DeezerResults)
YtResponses == Responses(YtResults)

\* what a retrieval does: it raises, leaves no file, or leaves the file
FetchOutcomes == {"raise", "nofile", "file"}

\* names a configuration may list in download.source_priority
SourceNames == {"deezer", "youtube", "tidal"}

\* the configurations: the parts MultiSourceDownloader.__init__ reads, and
\* whether the constructors of the sources succeed
Configs ==
    [source_priority : SeqsUpTo(SourceNames, MaxPriority),
     deezer_enabled : BOOLEAN,
     arl_token : BOOLEAN,
     DEEMIX_AVAILABLE : BOOLEAN,
     deemix_login : BOOLEAN,
     youtube_init : BOOLEAN]

\* MultiSourceDownloader._initialize_sources: the keys of self.sources, in
\* insertion order
InitializeSources(cfg) ==
    (IF cfg.deezer_enabled /\ cfg.arl_token /\ cfg.DEEMIX_AVAILABLE /\ cfg.deemix_login
     THEN <<"deezer">> ELSE <<>>)
    \o (IF cfg.youtube_init THEN <<"youtube">> ELSE <<>>)

\* MultiSourceDownloader.get_available_sources
get_available_sources == sources

\* `source in self.sources`
IsSource(name) == \E i \in 1..Len(sources) : sources[i] = name

-----------------------------------------------------------------------------
(* The two _find_best_match functions on the results of a search *)

\* the scores of the results above, computed once per track and result
DeemixScores == [t \in Tracks |-> [c \in DeezerResults |-> DeemixScore(t, c)]]
YtScores == [t \in Tracks |-> [r \in YtResults \ {NullEntry} |-> YtScore(t, r)]]

\* scored_results of DeemixClient._find_best_match after the sort
DeemixScored(t, rs) ==
    SortDesc([i \in 1..Len(rs) |-> [score |-> DeemixScores[t][rs[i]], result |-> rs[i]]])

\* DeemixAccepts without the threshold
DeemixAcceptsAny(best_score) == TRUE

\* best_score >= 60
DeemixAccepts(best_score) == best_score >= 60

\* DeemixClient._find_best_match: <<>> is None
DeemixFindBestMatch(t, rs) ==
    LET sr == DeemixScored(t, rs)
    IN  IF sr # <<>> /\ DeemixAccepts(sr[1].score) THEN <<sr[1].result>> ELSE <<>>

\* the results the loop does not skip (`if not result: continue`)
YtNonNull(rs) == SelectSeq(rs, LAMBDA r : r # NullEntry)

\* scored_results of YouTubeSearcher._find_best_match after the sort
YtScored(t, rs) ==
    LET kept == YtNonNull(rs)
    IN  SortDesc([i \in 1..Len(kept) |-> [score |-> YtScores[t][kept[i]], result |-> kept[i]]])

\* best_score > 30
YtAccepts(best_score) == best_score > 30 * Milli

\* YouTubeSearcher._find_best_match: <<>> is None
YtFindBestMatch(t, rs) ==
    LET sr == YtScored(t, rs)
    IN  IF sr # <<>> /\ YtAccepts(sr[1].score) THEN <<sr[1].result>> ELSE <<>>

-----------------------------------------------------------------------------
(* Exceptions *)

\* a value returned, or an exception raised
Returned(v) == [raised |-> FALSE, value |-> v]
Raised == [raised |-> TRUE, value |-> <<>>]

\* ExceptReturnNone without the except clause
ExceptMissing(r) == r

\* try: ... except Exception: return None (in download(): continue), which
\* leaves the caller with no result
ExceptReturnNone(r) == IF r.raised THEN Returned(<<>>) ELSE r

\* DeemixClient.search_track on the response of dz.api.search_track
DeemixSearchTrack(t, resp) ==
    ExceptReturnNone(
        IF resp.kind = "raise" THEN Raised
        ELSE IF resp.data = <<>> THEN Returned(<<>>)
        ELSE Returned(DeemixFindBestMatch(t, resp.data)))

\* YouTubeSearcher.search on the response of ydl.extract_info
YouTubeSearch(t, resp) ==
    ExceptReturnNone(
        IF resp.kind = "raise" THEN Raised
        ELSE IF resp.kind = "none" THEN Returned(<<>>)
        ELSE Returned(YtFindBestMatch(t, resp.data)))

\* DeemixClient.download_track: the path, <<>> for None
DeemixDownloadTrack(c, outcome) ==
    ExceptReturnNone(
        IF outcome = "raise" THEN Raised
        ELSE IF outcome = "file" THEN Returned(<<DeemixOutputPath(c)>>)
        ELSE Returned(<<>>))

\* Downloader.download when the file is not there yet: the path, <<>> for None
DownloaderDownload(t, outcome) ==
    ExceptReturnNone(
        IF outcome = "raise" THEN Raised
        ELSE IF outcome = "file" THEN Returned(<<DownloaderFinalPath(t)>>)
        ELSE Returned(<<>>))

-----------------------------------------------------------------------------
(* main and MultiSourceDownloader.download *)

\* one entry of the call log: the loop position, the source, the operation
\* ("search" or "fetch"), how it ended, and the path a fetch returned
Call(i, source, op, out, path) ==
    [idx |-> i, source |-> source, op |-> op, out |-> out, path |-> path]

\* the level of the root logger when main starts: setup_logging sets the
\* level of the logger 'spotify_downloader' and leaves the root logger alone
RootLevel == "WARNING"

\* retry_failed_downloads has not run: no record loaded (failed_tracks), no
\* record gone through (i), no path returned by download (audio_path), no
\* result of a retry, successfully_retried empty
NoRetry ==
    [failed_tracks |-> <<>>, i |-> 0, audio_path |-> <<>>, results |-> <<>>,
     successfully_retried |-> <<>>]

\* process_album_list has not run: albuns.txt as it was found (start) and
\* as it is (file), the list lines, pending_albums, the albums gone
\* through (idx) and how their runs ended (codes)
NoAlbuns ==
    [start |-> <<>>, file |-> <<>>, lines |-> <<>>, pending_albums |-> <<>>,
     idx |-> 0, codes |-> <<>>]

\* neither --retry-failed nor --list-albuns has run
NoEntry ==
    /\ retry = NoRetry
    /\ albuns = NoAlbuns

\* no batch run: no track fetched, no task, the counters of a fresh
\* ProgressDisplay, nothing on disk
NoBatch ==
    /\ tracks = <<>>
    /\ max_workers = 1
    /\ embed_metadata = TRUE
    /\ root_level = RootLevel
    /\ task = <<>>
    /\ completed = 0
    /\ failed = 0
    /\ skipped = 0
    /\ failed_tracks = <<>>
    /\ disk = {}
    /\ tracker = {}
    /\ ledger = <<>>

\* the state after MultiSourceDownloader(cfg) is constructed
Init ==
    /\ \E cfg \in Configs :
        /\ source_priority = cfg.source_priority
        /\ sources = InitializeSources(cfg)
    /\ pc = "main"
    /\ track = Track("", "", 1)
    /\ idx = 1
    /\ results = <<>>
    /\ scored = <<>>
    /\ match = <<>>
    /\ result = Returned(<<>>)
    /\ calls = <<>>
    /\ NoBatch
    /\ NoEntry

\* main: `if available_sources: ... else: sys.exit(1)`
MainCheckSources ==
    /\ pc = "main"
    /\ pc' = IF get_available_sources # <<>> THEN "idle" ELSE "aborted"
    /\ UNCHANGED <<source_priority, sources, track, idx, results, scored, match,
                   result, calls>>

\* download(track) is called and reaches the head of its for loop
StartDownload(t) ==
    /\ pc \in {"idle", "returned"}
    /\ pc' = "loop"
    /\ track' = t
    /\ idx' = 1
    /\ results' = <<>>
    /\ scored' = <<>>
    /\ match' = <<>>
    /\ result' = Returned(<<>>)
    /\ calls' = <<>>
    /\ UNCHANGED <<source_priority, sources>>

\* AtSource looping over the registry instead of the priority list
AtSourceAnyOrder(name) ==
    /\ pc = "loop"
    /\ idx <= Len(source_priority)
    /\ IsSource(name)

\* the loop is at a source it can try
AtSource(name) ==
    /\ pc = "loop"
    /\ idx <= Len(source_priority)
    /\ source_priority[idx] = name
    /\ IsSource(name)

\* `if source not in self.sources: continue`, and the final `else: continue`
LoopSkip ==
    /\ pc = "loop"
    /\ idx <= Len(source_priority)
    /\ \/ ~IsSource(source_priority[idx])
       \/ source_priority[idx] \notin {"deezer", "youtube"}
    /\ idx' = idx + 1
    /\ UNCHANGED <<source_priority, sources, pc, track, results, scored, match,
                   result, calls>>

\* how a search ended, for the call log
SearchOut(resp, r) ==
    IF resp.kind = "raise" THEN "raise"
    ELSE IF r.value = <<>> THEN "none"
    ELSE "match"

\* the search of a source has returned r inside the try block of download():
\* download's own handler turns an exception into "no result"; an exception
\* no handler catches leaves download()
SearchReturns(source, resp, r, sr) ==
    LET q == ExceptReturnNone(r)
    IN  /\ calls' = Append(calls, Call(idx, source, "search", SearchOut(resp, q), <<>>))
        /\ results' = resp.data
        /\ scored' = sr
        /\ IF q.raised
           THEN /\ pc' = "returned"
                /\ result' = Raised
                /\ match' = <<>>
           ELSE /\ pc' = "searched"
                /\ match' = q.value
                /\ UNCHANGED result
        /\ UNCHANGED <<source_priority, sources, track, idx>>

\* what _download_from_deezer gets from search_track, and the scored_results
\* behind it, for every track and response (computed once)
DeezerSearches ==
    [t \in Tracks |-> [resp \in DeezerResponses |->
        [r |-> ExceptReturnNone(DeemixSearchTrack(t, resp)),
         sr |-> IF resp.kind = "ok" THEN DeemixScored(t, resp.data) ELSE <<>>]]]

\* what _download_from_youtube gets from searcher.search
YouTubeSearches ==
    [t \in Tracks |-> [resp \in YtResponses |->
        [r |-> ExceptReturnNone(YouTubeSearch(t, resp)),
         sr |-> IF resp.kind = "ok" THEN YtScored(t, resp.data) ELSE <<>>]]]

\* _download_from_deezer up to the return of search_track
DeezerSearchStep ==
    /\ AtSource("deezer")
    /\ \E resp \in DeezerResponses :
        SearchReturns("deezer", resp, DeezerSearches[track][resp].r,
                      DeezerSearches[track][resp].sr)

\* _download_from_youtube up to the return of searcher.search
YouTubeSearchStep ==
    /\ AtSource("youtube")
    /\ \E resp \in YtResponses :
        SearchReturns("youtube", resp, YouTubeSearches[track][resp].r,
                      YouTubeSearches[track][resp].sr)

\* NotFound without the test of the search result
NotFoundUnchecked ==
    /\ pc = "searched"
    /\ pc' = "loop"
    /\ idx' = idx + 1
    /\ results' = <<>>
    /\ scored' = <<>>
    /\ match' = <<>>
    /\ UNCHANGED <<source_priority, sources, track, result, calls>>

\* the source found nothing: `return None`, download warns and goes on
NotFound ==
    /\ pc = "searched"
    /\ match = <<>>
    /\ pc' = "loop"
    /\ idx' = idx + 1
    /\ results' = <<>>
    /\ scored' = <<>>
    /\ UNCHANGED <<source_priority, sources, track, match, result, calls>>

\* FetchReturns without the `return result` of download()
FetchReturnsNoReturn(source, outcome, r) ==
    /\ calls' = Append(calls, Call(idx, source, "fetch", outcome, r.value))
    /\ results' = <<>>
    /\ scored' = <<>>
    /\ match' = <<>>
    /\ pc' = "loop"
    /\ idx' = idx + 1
    /\ UNCHANGED <<source_priority, sources, track, result>>

\* the fetch of a source has returned r inside the try block of download()
FetchReturns(source, outcome, r) ==
    LET q == ExceptReturnNone(r)
    IN  /\ calls' = Append(calls, Call(idx, source, "fetch", outcome, q.value))
        /\ results' = <<>>
        /\ scored' = <<>>
        /\ match' = <<>>
        /\ IF q.raised
           THEN /\ pc' = "returned"
                /\ result' = Raised
                /\ UNCHANGED idx
           ELSE IF q.value # <<>>
           THEN /\ pc' = "returned"
                /\ result' = q
                /\ UNCHANGED idx
           ELSE /\ pc' = "loop"
                /\ idx' = idx + 1
                /\ UNCHANGED result
        /\ UNCHANGED <<source_priority, sources, track>>

\* _download_from_deezer from download_track on, and download's `if result`
DeezerFetchStep ==
    /\ pc = "searched"
    /\ match # <<>>
    /\ source_priority[idx] = "deezer"
    /\ \E outcome \in FetchOutcomes :
        FetchReturns("deezer", outcome,
                     ExceptReturnNone(DeemixDownloadTrack(match[1], outcome)))

\* _download_from_youtube from downloader.download on, and download's `if result`
YouTubeFetchStep ==
    /\ pc = "searched"
    /\ match # <<>>
    /\ source_priority[idx] = "youtube"
    /\ \E outcome \in FetchOutcomes :
        FetchReturns("youtube", outcome,
                     ExceptReturnNone(DownloaderDownload(track, outcome)))

\* the loop is over: "Failed to download from all sources", return None
LoopExhausted ==
    /\ pc = "loop"
    /\ idx > Len(source_priority)
    /\ pc' = "returned"
    /\ result' = Returned(<<>>)
    /\ UNCHANGED <<source_priority, sources, track, idx, results, scored, match, calls>>

\* download() called for one track at a time: no batch run is under way
Next ==
    \/ MainCheckSources /\ UNCHANGED <<batch_vars, entry_vars>>
    \/ \E t \in Tracks : StartDownload(t) /\ UNCHANGED <<batch_vars, entry_vars>>
    \/ LoopSkip /\ UNCHANGED <<batch_vars, entry_vars>>
    \/ DeezerSearchStep /\ UNCHANGED <<batch_vars, entry_vars>>
    \/ YouTubeSearchStep /\ UNCHANGED <<batch_vars, entry_vars>>
    \/ NotFound /\ UNCHANGED <<batch_vars, entry_vars>>
    \/ DeezerFetchStep /\ UNCHANGED <<batch_vars, entry_vars>>
    \/ YouTubeFetchStep /\ UNCHANGED <<batch_vars, entry_vars>>
    \/ LoopExhausted /\ UNCHANGED <<batch_vars, entry_vars>>

Spec == Init /\ [][Next]_vars

-----------------------------------------------------------------------------
(* Properties of the fallback chain *)

\* position i of source_priority holds a source download() can try
Usable(i) ==
    /\ i \in 1..Len(source_priority)
    /\ IsSource(source_priority[i])
    /\ source_priority[i] \in {"deezer", "youtube"}

\* call k ended without a file
NoFile(k) ==
    \/ calls[k].op = "search" /\ calls[k].out \in {"raise", "none"}
    \/ calls[k].op = "fetch" /\ calls[k].out \in {"raise", "nofile"}

\* the source at position i had returned no file before call k was made
ExhaustedBefore(i, k) ==
    \E j \in 1..(k - 1) : calls[j].idx = i /\ NoFile(j)

\* the calls of one track follow the priority list
C1_Ordered ==
    \A k \in DOMAIN calls :
        /\ calls[k].idx \in 1..Len(source_priority)
        /\ calls[k].source = source_priority[calls[k].idx]
        /\ \A j \in 1..(k - 1) : calls[j].idx <= calls[k].idx
        /\ \A i \in 1..(calls[k].idx - 1) : Usable(i) => ExhaustedBefore(i, k)

\* C1: for every track the sources are called in the order of the priority
\* list, one after the other: a call of a source comes only after every
\* usable source before it in the list has returned no file for that track;
\* the list and the registry never change during a run.
C1_OrderedFallback ==
    /\ [](C1_Ordered)
    /\ [][source_priority' = source_priority /\ sources' = sources]_vars

\* a second source is called after the first one returned no file
C1_Witness ==
    /\ Len(calls) >= 2
    /\ calls[1].idx = 1
    /\ calls[Len(calls)].idx = 2
    /\ source_priority[1] # source_priority[2]
    /\ NoFile(1)

\* C2: once a fetch has returned a path, download() returns that very path
\* and no further call of any source is made for the track.
C2_FirstSuccessReturns ==
    \A k \in DOMAIN calls :
        (calls[k].op = "fetch" /\ calls[k].out = "file") =>
            /\ k = Len(calls)
            /\ pc = "returned"
            /\ calls[k].path # <<>>
            /\ result = Returned(calls[k].path)

\* the exact match of "Beautiful Pain" (246 s against 245 s) is fetched from
\* the first source while a second usable source stands behind it
C2_Witness ==
    /\ pc = "returned"
    /\ track = Track("Beautiful Pain", "Eminem", 245000)
    /\ Usable(1) /\ Usable(2)
    /\ source_priority = <<"deezer", "youtube">>
    /\ Len(calls) = 2
    /\ calls[1].out = "match"
    /\ calls[2].out = "file"
    /\ result = Returned(<<"downloads/Eminem/MMLP2/Beautiful Pain.flac">>)

\* C3 as claimed: after a source returned a qualifying match, no source
\* behind it in the list is called for the track.
C3_Claimed ==
    \A k \in DOMAIN calls :
        (calls[k].op = "search" /\ calls[k].out = "match") =>
            \A j \in (k + 1)..Len(calls) : calls[j].idx = calls[k].idx

\* C3, amended: after a source returned a qualifying match, a source behind
\* it in the list is called only if the fetch of that match returned no file
\* or raised.
C3_MatchThenFetch ==
    \A k \in DOMAIN calls :
        (calls[k].op = "search" /\ calls[k].out = "match") =>
            \A j \in (k + 1)..Len(calls) :
                calls[j].idx # calls[k].idx =>
                    /\ k + 1 < j
                    /\ calls[k + 1].op = "fetch"
                    /\ calls[k + 1].idx = calls[k].idx
                    /\ calls[k + 1].out \in {"raise", "nofile"}

\* a qualifying match whose fetch leaves no file, and the next source called
C3_Witness ==
    /\ Len(calls) = 3
    /\ calls[1].out = "match"
    /\ calls[2].out = "nofile"
    /\ calls[3].op = "search"
    /\ calls[3].idx = 2

\* C4 as claimed: download() returns None only after every source the
\* registry reports has been called for the track, and a run gets past the
\* source check of main only if download() can try at least one source.
C4_Claimed ==
    /\ (pc = "returned" /\ result = Returned(<<>>)) =>
           \A i \in 1..Len(get_available_sources) :
               \E k \in DOMAIN calls : calls[k].source = get_available_sources[i]
    /\ pc \notin {"main", "aborted"} => \E i \in 1..Len(source_priority) : Usable(i)

\* C5: an exception raised by a search or a fetch never leaves download();
\* after it the loop stands where it stands after a source that returned
\* nothing, and the next call, if any, is to a later entry of the list.
C5_ExceptionsContained ==
    /\ ~result.raised
    /\ \A k \in DOMAIN calls :
        calls[k].out = "raise" =>
            /\ k < Len(calls) => calls[k + 1].idx > calls[k].idx
            /\ k = Len(calls) =>
                \/ pc = "searched" /\ calls[k].op = "search" /\ match = <<>>
                                   /\ idx = calls[k].idx
                \/ pc = "loop" /\ idx > calls[k].idx
                \/ pc = "returned" /\ idx > Len(source_priority)
                                   /\ result = Returned(<<>>)

\* a source raised and the next source of the list was called
C5_Witness ==
    \E k \in DOMAIN calls :
        /\ calls[k].out = "raise"
        /\ k < Len(calls)
        /\ calls[k + 1].idx = calls[k].idx + 1

-----------------------------------------------------------------------------
(* Properties of the match scorers *)

\* the source whose search has just returned
SearchedSource == source_priority[idx]

\* the minimum confidence of a source, in the unit of its scores
MinConfidence(source) == IF source = "deezer" THEN 60 ELSE 30 * Milli

\* the results that were scored, in the order of the result list
Kept == IF SearchedSource = "youtube" THEN YtNonNull(results) ELSE results

\* the score of result c of the searched source for the current track
ScoreOf(c) ==
    IF SearchedSource = "deezer" THEN DeemixScores[track][c] ELSE YtScores[track][c]

\* C6: a scorer never returns a candidate that scores below the minimum
\* confidence of its source, and no candidate of the list scores higher than
\* the one returned.
C6_NeverBelowConfidence ==
    (pc = "searched" /\ match # <<>>) =>
        /\ \E i \in DOMAIN scored : scored[i].result = match[1]
        /\ \A i \in DOMAIN scored :
            scored[i].result = match[1] =>
                /\ scored[i].score >= MinConfidence(SearchedSource)
                /\ \A j \in DOMAIN scored : scored[j].score <= scored[i].score
        /\ \A i \in DOMAIN Kept : ScoreOf(Kept[i]) <= ScoreOf(match[1])
        /\ ScoreOf(match[1]) >= MinConfidence(SearchedSource)

\* a list with a candidate above and a candidate below the threshold
C6_Witness ==
    /\ pc = "searched"
    /\ match # <<>>
    /\ Len(scored) = 2
    /\ scored[2].score < MinConfidence(SearchedSource)
    /\ scored[2].result = results[1]

\* C7 as claimed: the scorers return the top-scored candidate whenever its
\* score is at least the minimum confidence (60 on Deezer, 30 on YouTube),
\* a score equal to the threshold included, and None otherwise.
C7_Claimed ==
    (pc = "searched" /\ scored # <<>>) =>
        match = IF scored[1].score >= MinConfidence(SearchedSource)
                THEN <<scored[1].result>> ELSE <<>>

\* the highest score among the scored results
TopScore == CHOOSE m \in {ScoreOf(Kept[i]) : i \in DOMAIN Kept} :
                \A i \in DOMAIN Kept : ScoreOf(Kept[i]) <= m

\* the first position of the result list that has the highest score
FirstTop == CHOOSE i \in DOMAIN Kept :
                /\ ScoreOf(Kept[i]) = TopScore
                /\ \A j \in 1..(i - 1) : ScoreOf(Kept[j]) # TopScore

\* C8: when several candidates share the highest score, the scorers return
\* the one that comes first in the result list.
C8_TiesFirstSeen ==
    (pc = "searched" /\ match # <<>>) => match[1] = Kept[FirstTop]

\* two different candidates share the highest score; the first is returned
C8_Witness ==
    /\ pc = "searched"
    /\ Len(Kept) = 2
    /\ Kept[1] # Kept[2]
    /\ ScoreOf(Kept[1]) = ScoreOf(Kept[2])
    /\ match = <<Kept[1]>>

\* C9 as claimed: the Deezer scorer of the chain gives title + artist points
\* and +20 for durations at most 5 s apart, +10 for more than 5 s and at
\* most 10 s apart, 0 otherwise.
C9_Claimed ==
    (pc = "searched" /\ SearchedSource = "deezer") =>
        \A i \in DOMAIN scored :
            scored[i].score =
                DeemixTitleScore(track, scored[i].result)
                + DeemixArtistScore(track, scored[i].result)
                + DeezerClientDurationScore(track, scored[i].result)

\* C10 as claimed: a live version that is the only candidate of the first
\* source tried, for a track without 'original' in its title, is rejected
\* (so that download() goes on to the next source).
C10_Claimed ==
    (/\ pc = "searched"
     /\ \A i \in 1..(idx - 1) : ~Usable(i)
     /\ Len(Kept) = 1
     /\ Len(results) = 1
     /\ Contains(Lower(results[1].title), "live")
     /\ ~Contains(Lower(track.name), "original")) => match = <<>>

-----------------------------------------------------------------------------
(* Files: Downloader.download and DeemixClient.download_track on the disk *)

\* bounds of the batch model: the longest track list the catalog returns,
\* and the largest download.max_concurrent
MaxTracks == 2
MaxWorkers == 2
\* the number of calls of Downloader.download in a row
MaxCalls == 3

\* a track as SpotifyClient._format_track returns it
CatalogTrack(id, name, artist) ==
    [id |-> id, name |-> name, artist |-> artist, album |-> "MMLP2",
     duration_ms |-> 245000, track_number |-> 7,
     spotify_url |-> "https://open.spotify.com/track/" \o id]

\* the tracks of the playlist or album of the run
Catalog ==
    << CatalogTrack("t1", "Beautiful Pain", "Eminem"),
       CatalogTrack("t2", "Rap God", "Eminem"),
       CatalogTrack("t3", "Mr. Brightside", "The Killers"),
       CatalogTrack("t4", "Mr. Jones", "The Killers"),
       CatalogTrack("t5", "Legacy", "Eminem") >>

\* the index in the catalog of a track
CatalogIndex(t) == CHOOSE k \in 1..Len(Catalog) : Catalog[k] = t

\* the track lists a Downloader is given: runs of neighbours in the catalog
TrackLists ==
    {SubSeq(Catalog, n, n + MaxTracks - 1) : n \in 1..(Len(Catalog) - MaxTracks + 1)}

\* download.skip_existing
skip_existing == TRUE

\* output_path of Downloader.download: _get_output_path(track), no extension
DownloaderOutputPath(t) == DownloaderOutputDir(t) \o "/" \o DownloaderOutputName(t)

\* the paths of the catalog's tracks, computed once: what Downloader tests
\* (out), what it writes (final), and what deemix writes for the Deezer
\* track of the same artist, album and title (flac)
Paths ==
    [k \in 1..Len(Catalog) |->
        [out |-> DownloaderOutputPath(Catalog[k]),
         final |-> DownloaderFinalPath(Catalog[k]),
         flac |-> DeemixOutputPath([artist |-> Catalog[k].artist,
                                    album |-> Catalog[k].album,
                                    title |-> Catalog[k].name])]]

\* `if self.skip_existing and output_path.exists()`
SkipsExisting(d, k) == skip_existing /\ Paths[k].out \in d

\* Downloader.download for track k of the catalog on the disk d, yt-dlp
\* ending as outcome: the path returned (<<>> for None), the disk afterwards,
\* and whether yt-dlp was run
DownloaderDownloadOnDisk(d, k, outcome) ==
    IF SkipsExisting(d, k)
    THEN [result |-> <<Paths[k].out>>, disk |-> d, fetched |-> FALSE]
    ELSE IF outcome = "raise"
    THEN [result |-> <<>>, disk |-> d, fetched |-> TRUE]
    ELSE LET d2 == IF outcome = "file" THEN d \cup {Paths[k].final} ELSE d
         IN  [result |-> IF Paths[k].final \in d2 THEN <<Paths[k].final>> ELSE <<>>,
              disk |-> d2, fetched |-> TRUE]

\* DeemixClient.download_track for the Deezer track of catalog track k:
\* deemix is always started, then the expected flac file is looked for
DeemixDownloadOnDisk(d, k, outcome) ==
    IF outcome = "raise"
    THEN [result |-> <<>>, disk |-> d, fetched |-> TRUE]
    ELSE LET d2 == IF outcome = "file" THEN d \cup {Paths[k].flac} ELSE d
         IN  [result |-> IF Paths[k].flac \in d2 THEN <<Paths[k].flac>> ELSE <<>>,
              disk |-> d2, fetched |-> TRUE]

\* a Downloader constructed on its own: no download() loop, no batch; the
\* output directory may hold files of the extensionless names already
DownloaderInit ==
    /\ source_priority = <<"youtube">>
    /\ sources = <<"youtube">>
    /\ pc = "downloader"
    /\ track = Track("", "", 1)
    /\ idx = 1
    /\ results = <<>>
    /\ scored = <<>>
    /\ match = <<>>
    /\ result = Returned(<<>>)
    /\ calls = <<>>
    /\ tracks \in TrackLists
    /\ max_workers = 1
    /\ task = <<>>
    /\ completed = 0
    /\ failed = 0
    /\ skipped = 0
    /\ failed_tracks = <<>>
    /\ disk \in SUBSET {Paths[CatalogIndex(tracks[k])].out : k \in DOMAIN tracks}
    /\ tracker = {}
    /\ ledger = <<>>
    /\ embed_metadata = TRUE
    /\ root_level = RootLevel
    /\ NoEntry

\* one call of Downloader.download(url, tracks[k]); the log keeps whether
\* yt-dlp was run ("fetch") or not ("skip"), and the path returned
DownloaderCall(k, outcome) ==
    /\ pc = "downloader"
    /\ Len(calls) < MaxCalls
    /\ LET r == DownloaderDownloadOnDisk(disk, CatalogIndex(tracks[k]), outcome)
       IN  /\ disk' = r.disk
           /\ result' = Returned(r.result)
           /\ calls' = Append(calls,
                  Call(k, "youtube", IF r.fetched THEN "fetch" ELSE "skip",
                       IF r.fetched THEN outcome ELSE "existing", r.result))
    /\ track' = tracks[k]
    /\ UNCHANGED <<source_priority, sources, pc, idx, results, scored, match>>
    /\ UNCHANGED <<tracks, max_workers, embed_metadata, task, completed,
                   failed, skipped, failed_tracks, tracker, ledger,
                   root_level, entry_vars>>

DownloaderNext ==
    \E k \in 1..MaxTracks, outcome \in FetchOutcomes : DownloaderCall(k, outcome)

DownloaderSpec == DownloaderInit /\ [][DownloaderNext]_vars

\* C25 as claimed: for any two distinct tracks of a run the output path of
\* Downloader._get_output_path and the final path derived from it (codec
\* suffix applied) are different, so that no two calls of Downloader.download
\* for distinct tracks test or write the same path.
C25_Claimed ==
    \A j, k \in DOMAIN calls :
        LET a == CatalogIndex(tracks[calls[j].idx])
            b == CatalogIndex(tracks[calls[k].idx])
        IN  tracks[calls[j].idx] # tracks[calls[k].idx] =>
                /\ Paths[a].out # Paths[b].out
                /\ Paths[a].final # Paths[b].final
                /\ calls[j].path # <<>> => calls[j].path # calls[k].path

\* C12 as claimed: with skip_existing, a call of Downloader.download for a
\* track whose earlier call ran the fetch, returned a path and left the file
\* on disk does not run the fetch again and returns the same path.
C12_Claimed ==
    \A j, k \in DOMAIN calls :
        (/\ j < k
         /\ calls[j].idx = calls[k].idx
         /\ calls[j].op = "fetch"
         /\ calls[j].path # <<>>
         /\ calls[j].path[1] \in disk) =>
            /\ calls[k].op = "skip"
            /\ calls[k].path = calls[j].path

-----------------------------------------------------------------------------
(* The batch run of main: thread pool, download_track, counters, ledger *)

\* the configurations of the batch runs: Deezer is not enabled (no ARL
\* token), and the YouTube source initialises or not
BatchConfigs ==
    { [source_priority |-> <<"deezer", "youtube">>, deezer_enabled |-> FALSE,
       arl_token |-> FALSE, DEEMIX_AVAILABLE |-> TRUE, deemix_login |-> TRUE,
       youtube_init |-> yt] : yt \in BOOLEAN }

\* what get_playlist_tracks / get_album_tracks / get_track does: it raises,
\* or returns the first n tracks of the catalog
CatalogResponses ==
    {[kind |-> "raise", data |-> <<>>]}
    \cup {[kind |-> "ok", data |-> SubSeq(Catalog, 1, n)] : n \in 0..MaxTracks}

\* what one source does for a track inside download(): its search finds no
\* qualifying match (or raises), or the match is fetched and the fetch
\* raises, leaves no file, or leaves the file
SourceOutcomes == {"nomatch", "raise", "nofile", "file"}

RECURSIVE DownloadFrom(_, _, _, _)
\* MultiSourceDownloader.download(track k) from position i of the priority
\* list on, on the disk d, the sources behaving as outs: the path returned
\* (<<>> for None), the disk afterwards, whether a search and whether a
\* fetch was invoked, and the source whose fetch returned the path
DownloadFrom(i, d, k, outs) ==
    IF i > Len(source_priority)
    THEN [result |-> <<>>, disk |-> d, searched |-> FALSE, fetched |-> FALSE,
          source |-> <<>>]
    ELSE IF ~Usable(i) THEN DownloadFrom(i + 1, d, k, outs)
    ELSE IF outs[i] = "nomatch"
    THEN [DownloadFrom(i + 1, d, k, outs) EXCEPT !.searched = TRUE]
    ELSE LET f == IF source_priority[i] = "deezer"
                  THEN DeemixDownloadOnDisk(d, k, outs[i])
                  ELSE DownloaderDownloadOnDisk(d, k, outs[i])
             r == DownloadFrom(i + 1, f.disk, k, outs)
         IN  IF f.result # <<>>
             THEN [result |-> f.result, disk |-> f.disk, searched |-> TRUE,
                   fetched |-> f.fetched, source |-> <<source_priority[i]>>]
             ELSE [r EXCEPT !.searched = TRUE, !.fetched = r.fetched \/ f.fetched]

\* DownloadTracker.is_downloaded(track, path): the track was marked as
\* downloaded and the file is there
IsDownloaded(tr, d, t, path) == t.id \in tr /\ path \in d

\* DownloadTracker.mark_downloaded(track, path)
MarkDownloaded(tr, t) == tr \cup {t.id}

\* the entry print_error appends to failed_tracks
FailureRecord(t) == [name |-> t.name, artist |-> t.artist, url |-> t.spotify_url]

\* FailedData keeping only the name of every record
FailedDataNames(ft) ==
    [timestamp |-> "now", total_failed |-> Len(ft),
     tracks |-> [j \in DOMAIN ft |-> [name |-> ft[j].name]]]

\* failed_data of main and of retry_failed_downloads, and the document
\* json.dump writes for it: an object of a string, a number and an array of
\* objects of strings, which json.load reads back as the same dict
FailedData(ft) == [timestamp |-> "now", total_failed |-> Len(ft), tracks |-> ft]

\* a ledger an earlier run has left
StaleLedger ==
    [timestamp |-> "earlier", total_failed |-> 1,
     tracks |-> <<FailureRecord(Catalog[Len(Catalog)])>>]

\* a task that download_track has not been submitted for
NewTask ==
    [pc |-> "new", original_level |-> <<>>, audio_path |-> <<>>,
     fetched_from |-> <<>>, searched |-> FALSE, fetched |-> FALSE,
     embedded |-> <<>>, source |-> <<>>, reg |-> 0, counted |-> <<>>]

\* the tracks earlier runs may have downloaded: none, or the first n of the
\* catalog
Downloaded == {1..n : n \in 0..MaxTracks}

\* what earlier runs have left: the files and tracker marks of some tracks
\* of the catalog, and the ledger; metadata is embedded (the default)
BatchInit ==
    /\ \E cfg \in BatchConfigs :
        /\ source_priority = cfg.source_priority
        /\ sources = InitializeSources(cfg)
    /\ pc = "main"
    /\ track = Track("", "", 1)
    /\ idx = 1
    /\ results = <<>>
    /\ scored = <<>>
    /\ match = <<>>
    /\ result = Returned(<<>>)
    /\ calls = <<>>
    /\ tracks = <<>>
    /\ max_workers \in 0..MaxWorkers
    /\ embed_metadata = TRUE
    /\ root_level = RootLevel
    /\ NoEntry
    /\ task = <<>>
    /\ completed = 0
    /\ failed = 0
    /\ skipped = 0
    /\ failed_tracks = <<>>
    /\ \E A \in Downloaded :
        /\ disk = {Paths[k].final : k \in A}
        /\ tracker = {Catalog[k].id : k \in A}
    /\ ledger \in {<<>>, <<StaleLedger>>}

\* RunAborts without `if not tracks`
RunAbortsOnRaise(resp) == resp.kind = "raise" \/ max_workers <= 0

\* the catalog lookup raises (`except Exception`), it returns no track
\* (`if not tracks`), or ThreadPoolExecutor raises ValueError
RunAborts(resp) == resp.kind = "raise" \/ resp.data = <<>> \/ max_workers <= 0

\* main, from "Fetching ... information" to the creation of the thread pool:
\* the catalog lookup raises or finds no track (sys.exit(1)), or
\* ThreadPoolExecutor refuses max_workers (ValueError, sys.exit(1))
FetchTracks ==
    /\ pc = "idle"
    /\ \E resp \in CatalogResponses :
        IF RunAborts(resp)
        THEN /\ pc' = "aborted"
             /\ UNCHANGED <<tracks, task>>
        ELSE /\ pc' = "submit"
             /\ tracks' = resp.data
             /\ task' = [i \in 1..Len(resp.data) |-> NewTask]
    /\ UNCHANGED <<source_priority, sources, track, idx, results, scored, match,
                   result, calls>>
    /\ UNCHANGED <<max_workers, embed_metadata, completed, failed, skipped,
                   failed_tracks, disk, tracker, ledger, root_level,
                   entry_vars>>

\* the tasks a worker thread is running
Running == {i \in DOMAIN task : task[i].pc \notin {"new", "queued", "done"}}

\* executor.submit(download_track, track, ...) for the next track of the
\* list; after the last one main enters the as_completed loop
Submit ==
    /\ pc = "submit"
    /\ \E i \in DOMAIN task :
        /\ task[i].pc = "new"
        /\ \A j \in 1..(i - 1) : task[j].pc # "new"
        /\ task' = [task EXCEPT ![i].pc = "queued"]
        /\ pc' = IF i = Len(task) THEN "drain" ELSE "submit"
    /\ UNCHANGED <<source_priority, sources, track, idx, results, scored, match,
                   result, calls>>
    /\ UNCHANGED <<tracks, max_workers, embed_metadata, completed, failed,
                   skipped, failed_tracks, disk, tracker, ledger, root_level,
                   entry_vars>>

\* WorkerFree without the size of the pool
WorkerFreeUnbounded == TRUE

\* ThreadPoolExecutor(max_workers=max_workers): a thread of the pool is idle
\* or can still be created
WorkerFree == Cardinality(Running) < max_workers

\* a worker thread takes the oldest queued task and begins download_track:
\* the stagger sleep and print_track_info, then the level of the root logger
\* is kept in original_level and set to ERROR
TaskStart(i) ==
    /\ task[i].pc = "queued"
    /\ \A j \in 1..(i - 1) : task[j].pc # "queued"
    /\ WorkerFree
    /\ task' = [task EXCEPT ![i].pc = "sleep",
                            ![i].original_level = <<root_level>>]
    /\ root_level' = "ERROR"
    /\ UNCHANGED <<chain_vars, entry_vars>>
    /\ UNCHANGED <<tracks, max_workers, embed_metadata, completed, failed,
                   skipped, failed_tracks, disk, tracker, ledger>>

\* audio_path = multi_downloader.download(track), which raises nothing;
\* then the root logger is set to original_level
TaskDownload(i) ==
    /\ task[i].pc = "sleep"
    /\ \E outs \in [1..Len(source_priority) -> SourceOutcomes] :
        LET r == DownloadFrom(1, disk, CatalogIndex(tracks[i]), outs)
        IN  /\ task' = [task EXCEPT ![i].pc = "downloaded",
                                    ![i].original_level = <<>>,
                                    ![i].audio_path = r.result,
                                    ![i].fetched_from = r.source,
                                    ![i].searched = r.searched,
                                    ![i].fetched = r.fetched]
            /\ disk' = r.disk
    /\ root_level' = task[i].original_level[1]
    /\ UNCHANGED <<chain_vars, entry_vars>>
    /\ UNCHANGED <<tracks, max_workers, embed_metadata, completed, failed,
                   skipped, failed_tracks, tracker, ledger>>

\* the attribute last_source of MultiSourceDownloader: <<>>, since no code
\* assigns it
last_source == <<>>

\* getattr(object, name, default) for an attribute that is missing (<<>>)
\* or set
GetAttr(attr, default) == IF attr = <<>> THEN default ELSE attr[1]

\* EmbedMetadata calling embed a second time
EmbedMetadataTwice(enabled, ok) == IF enabled THEN <<ok, ok>> ELSE <<>>

\* `if metadata_embedder.embed_metadata: metadata_embedder.embed(path, track)`:
\* the results of the calls of embed made, which returns False when it
\* fails and raises nothing
EmbedMetadata(enabled, ok) == IF enabled THEN <<ok>> ELSE <<>>

\* where download_track raises between `if not audio_path` and print_success:
\* nowhere, before the embedding (load_config, the tracker, stat() of a
\* skipped file), or after it (stat() of the new file)
RaisePoints == {"no", "before", "after"}

\* download_track from `if not audio_path` to the call of print_error,
\* print_skip or print_success
TaskCheck(i) ==
    /\ task[i].pc = "downloaded"
    /\ \E raises \in RaisePoints, ok \in BOOLEAN :
        task' = [task EXCEPT ![i] =
            IF task[i].audio_path = <<>> \/ raises = "before"
            THEN [@ EXCEPT !.pc = "print_error"]
            ELSE IF IsDownloaded(tracker, disk, tracks[i], task[i].audio_path[1])
            THEN [@ EXCEPT !.pc = "print_skip"]
            ELSE IF raises = "after"
            THEN [@ EXCEPT !.pc = "print_error",
                           !.embedded = EmbedMetadata(embed_metadata, ok)]
            ELSE [@ EXCEPT !.pc = "print_success",
                           !.embedded = EmbedMetadata(embed_metadata, ok),
                           !.source = <<GetAttr(last_source, "unknown")>>]]
    /\ UNCHANGED <<chain_vars, entry_vars>>
    /\ UNCHANGED <<tracks, max_workers, embed_metadata, completed, failed,
                   skipped, failed_tracks, disk, tracker, ledger, root_level>>

\* the counter a print_ method of ProgressDisplay increments
Counter(name) ==
    IF name = "completed" THEN completed
    ELSE IF name = "failed" THEN failed
    ELSE skipped

\* the counter of the print_ method a task is in
CounterName(p) ==
    IF p \in {"print_success", "store_success"} THEN "completed"
    ELSE IF p \in {"print_error", "store_error"} THEN "failed"
    ELSE "skipped"

\* `self.completed += 1` (failed, skipped), first half: the counter is read
TaskLoad(i) ==
    /\ task[i].pc \in {"print_error", "print_skip", "print_success"}
    /\ task' = [task EXCEPT
                   ![i].reg = Counter(CounterName(task[i].pc)),
                   ![i].embedded = <<>>,
                   ![i].pc = IF task[i].pc = "print_error" THEN "store_error"
                             ELSE IF task[i].pc = "print_skip" THEN "store_skip"
                             ELSE "store_success"]
    /\ UNCHANGED <<chain_vars, entry_vars>>
    /\ UNCHANGED <<tracks, max_workers, embed_metadata, completed, failed,
                   skipped, failed_tracks, disk, tracker, ledger, root_level>>

\* `self.completed += 1` (failed, skipped), second half: the value read plus
\* one is stored; print_error then appends to failed_tracks; download_track
\* returns after print_error and print_skip, and goes on after print_success
TaskStore(i) ==
    /\ task[i].pc \in {"store_error", "store_skip", "store_success"}
    /\ completed' = IF task[i].pc = "store_success" THEN task[i].reg + 1 ELSE completed
    /\ failed' = IF task[i].pc = "store_error" THEN task[i].reg + 1 ELSE failed
    /\ skipped' = IF task[i].pc = "store_skip" THEN task[i].reg + 1 ELSE skipped
    /\ failed_tracks' = IF task[i].pc = "store_error"
                        THEN Append(failed_tracks, FailureRecord(tracks[i]))
                        ELSE failed_tracks
    /\ task' = [task EXCEPT
                   ![i].reg = 0,
                   ![i].audio_path = IF task[i].pc = "store_success" THEN @ ELSE <<>>,
                   ![i].fetched_from = IF task[i].pc = "store_success" THEN @ ELSE <<>>,
                   ![i].source = IF task[i].pc = "store_success" THEN @ ELSE <<>>,
                   ![i].counted = Append(task[i].counted, CounterName(task[i].pc)),
                   ![i].pc = IF task[i].pc = "store_success" THEN "mark" ELSE "done"]
    /\ UNCHANGED <<chain_vars, entry_vars>>
    /\ UNCHANGED <<tracks, max_workers, embed_metadata, disk, tracker, ledger,
                   root_level>>

\* tracker.mark_downloaded(track, path) after print_success; when it raises,
\* the handler of download_track calls print_error
TaskMark(i) ==
    /\ task[i].pc = "mark"
    /\ \E raises \in BOOLEAN :
        IF raises
        THEN /\ task' = [task EXCEPT ![i].pc = "print_error", ![i].source = <<>>]
             /\ UNCHANGED tracker
        ELSE /\ task' = [task EXCEPT ![i].pc = "done", ![i].audio_path = <<>>,
                                     ![i].fetched_from = <<>>, ![i].source = <<>>]
             /\ tracker' = MarkDownloaded(tracker, tracks[i])
    /\ UNCHANGED <<chain_vars, entry_vars>>
    /\ UNCHANGED <<tracks, max_workers, embed_metadata, completed, failed,
                   skipped, failed_tracks, disk, ledger, root_level>>

\* the tasks whose future is done
Done == {i \in DOMAIN task : task[i].pc = "done"}

\* KeyboardInterrupt reaches main inside the `with ThreadPoolExecutor` block:
\* the block is left through executor.__exit__, that is shutdown(wait=True)
Interrupt ==
    /\ pc \in {"submit", "drain"}
    /\ pc' = "shutdown"
    /\ UNCHANGED <<source_priority, sources, track, idx, results, scored, match,
                   result, calls>>
    /\ UNCHANGED <<batch_vars, entry_vars>>

\* shutdown(wait=True) returns once the worker threads have emptied the
\* queue; `except KeyboardInterrupt: sys.exit(0)`
Shutdown ==
    /\ pc = "shutdown"
    /\ \A i \in DOMAIN task : task[i].pc \in {"new", "done"}
    /\ pc' = "exit_interrupted"
    /\ UNCHANGED <<source_priority, sources, track, idx, results, scored, match,
                   result, calls>>
    /\ UNCHANGED <<batch_vars, entry_vars>>

\* SaveLedger adding the failed tracks to the records of the file
SaveLedgerAppend(old, ft) ==
    IF ft # <<>>
    THEN <<FailedData((IF old = <<>> THEN <<>> ELSE old[1].tracks) \o ft)>>
    ELSE <<>>

\* the ledger after `if display.failed_tracks: ... json.dump(failed_data, f)
\* else: failed_log.unlink()` when no file operation raises
SaveLedger(old, ft) == IF ft # <<>> THEN <<FailedData(ft)>> ELSE <<>>

\* main from the as_completed loop on: every future is taken as it finishes
\* (future.result() does not raise and the body is `pass`), the with block
\* is left, print_summary, then the ledger is written or deleted; when
\* open() or unlink() raises, the exception is logged or passed over and the
\* file stays as it was
SaveFailed ==
    /\ pc = "drain"
    /\ Done = DOMAIN task
    /\ \E raises \in BOOLEAN :
        /\ pc' = IF raises THEN "save_failed" ELSE "saved"
        /\ ledger' = IF raises THEN ledger ELSE SaveLedger(ledger, failed_tracks)
    /\ UNCHANGED <<source_priority, sources, track, idx, results, scored, match,
                   result, calls>>
    /\ UNCHANGED <<tracks, max_workers, embed_metadata, task, completed,
                   failed, skipped, failed_tracks, disk, tracker, root_level,
                   entry_vars>>

\* what an interrupted json.dump leaves of .failed_downloads.json: open(..,
\* 'w') has emptied the file and only a beginning of the document is written
PartialLedger == [text |-> "{ \"timestamp\": "]

\* how far the ledger step has got when the interrupt arrives
SaveProgress == {"before", "during", "after"}

\* KeyboardInterrupt reaches main after the `with` block, in print_summary,
\* in the ledger step or in the messages behind it: `except Exception` does
\* not catch it, `except KeyboardInterrupt: sys.exit(0)` does
InterruptSave ==
    /\ pc = "drain"
    /\ Done = DOMAIN task
    /\ \E progress \in SaveProgress :
        ledger' = IF progress = "before" THEN ledger
                  ELSE IF progress = "during" /\ failed_tracks # <<>>
                  THEN <<PartialLedger>>
                  ELSE SaveLedger(ledger, failed_tracks)
    /\ pc' = "exit_interrupted"
    /\ UNCHANGED <<source_priority, sources, track, idx, results, scored, match,
                   result, calls>>
    /\ UNCHANGED <<tracks, max_workers, embed_metadata, task, completed,
                   failed, skipped, failed_tracks, disk, tracker, root_level,
                   entry_vars>>

\* `if display.failed == len(tracks)`
AllFailed == failed = Len(tracks)

\* the end of main: sys.exit(1) when all downloads failed
Exit ==
    /\ pc \in {"saved", "save_failed"}
    /\ pc' = IF AllFailed THEN "exit_failed" ELSE "exit_ok"
    /\ UNCHANGED <<source_priority, sources, track, idx, results, scored, match,
                   result, calls>>
    /\ UNCHANGED <<batch_vars, entry_vars>>

\* the exit status of the process: <<>> while main is running
ExitStatus ==
    IF pc \in {"aborted", "exit_failed"} THEN <<1>>
    ELSE IF pc \in {"exit_ok", "exit_interrupted"} THEN <<0>>
    ELSE <<>>

BatchNext ==
    \/ MainCheckSources /\ UNCHANGED <<batch_vars, entry_vars>>
    \/ FetchTracks
    \/ Submit
    \/ \E i \in DOMAIN task : TaskStart(i)
    \/ \E i \in DOMAIN task : TaskDownload(i)
    \/ \E i \in DOMAIN task : TaskCheck(i)
    \/ \E i \in DOMAIN task : TaskLoad(i)
    \/ \E i \in DOMAIN task : TaskStore(i)
    \/ \E i \in DOMAIN task : TaskMark(i)
    \/ Interrupt
    \/ Shutdown
    \/ SaveFailed
    \/ InterruptSave
    \/ Exit

BatchSpec == BatchInit /\ [][BatchNext]_vars

\* the batch run with and without --no-metadata (metadata.embed_metadata),
\* the YouTube source initialised and no ledger left by an earlier run
TrackInit ==
    /\ source_priority = <<"deezer", "youtube">>
    /\ sources = <<"youtube">>
    /\ pc = "main"
    /\ track = Track("", "", 1)
    /\ idx = 1
    /\ results = <<>>
    /\ scored = <<>>
    /\ match = <<>>
    /\ result = Returned(<<>>)
    /\ calls = <<>>
    /\ tracks = <<>>
    /\ max_workers \in 1..MaxWorkers
    /\ embed_metadata \in BOOLEAN
    /\ root_level = RootLevel
    /\ NoEntry
    /\ task = <<>>
    /\ completed = 0
    /\ failed = 0
    /\ skipped = 0
    /\ failed_tracks = <<>>
    /\ \E A \in Downloaded :
        /\ disk = {Paths[k].final : k \in A}
        /\ tracker = {Catalog[k].id : k \in A}
    /\ ledger = <<>>

TrackSpec == TrackInit /\ [][BatchNext]_vars

-----------------------------------------------------------------------------
(* The retry entry point: retry_failed_downloads on .failed_downloads.json *)

\* the longest list of records in a ledger found by --retry-failed
MaxRecords == 2

\* a JSON array at the top of a document, as the old format of the ledger
JsonArray(elements) == [items |-> elements]

\* isinstance(failed_data, list) / isinstance(failed_data, dict) of a
\* document json.load has parsed; a text that is no document has neither
IsList(doc) == "items" \in DOMAIN doc
IsDict(doc) == "items" \notin DOMAIN doc /\ "text" \notin DOMAIN doc

\* dict.get(key) with None read as default
DictGet(d, key, default) == IF key \in DOMAIN d THEN d[key] ELSE default

\* a record as print_error stores it when it is given no track_info
NameRecord == [name |-> "Eminem - Legacy"]

\* the records a ledger can hold: of the first two tracks of the catalog,
\* and one with only a name
LedgerRecords == {FailureRecord(Catalog[1]), FailureRecord(Catalog[2]), NameRecord}

\* the lists of at most MaxRecords such records
RecordLists ==
    UNION {[1..n -> LedgerRecords] : n \in 0..MaxRecords}

\* what --retry-failed can find in the output directory when no batch run of
\* this process precedes it: no file, a file that is not JSON, an object
\* without 'tracks', and a list of records in the new or in the old format
OldLedgers ==
    {<<>>, <<PartialLedger>>, <<[timestamp |-> "earlier"]>>}
    \cup {<<FailedData(recs)>> : recs \in RecordLists}
    \cup {<<JsonArray(recs)>> : recs \in RecordLists}

\* LoadLedger taking only the new format
LoadLedgerNewOnly(l) ==
    IF l = <<>> THEN [kind |-> "no_ledger", failed_tracks |-> <<>>]
    ELSE IF ~IsDict(l[1]) /\ ~IsList(l[1])
    THEN [kind |-> "error_reading", failed_tracks |-> <<>>]
    ELSE LET ft == IF IsDict(l[1]) /\ "tracks" \in DOMAIN l[1]
                   THEN l[1].tracks ELSE <<>>
         IN  IF ft = <<>> THEN [kind |-> "nothing_to_retry", failed_tracks |-> <<>>]
             ELSE [kind |-> "found", failed_tracks |-> ft]

\* retry_failed_downloads up to `if not failed_tracks`: the file does not
\* exist; json.load raises; failed_tracks is the 'tracks' of a dict, or the
\* list itself, or [] for another document; and it is empty or not
LoadLedger(l) ==
    IF l = <<>> THEN [kind |-> "no_ledger", failed_tracks |-> <<>>]
    ELSE IF ~IsDict(l[1]) /\ ~IsList(l[1])
    THEN [kind |-> "error_reading", failed_tracks |-> <<>>]
    ELSE LET ft == IF IsDict(l[1]) /\ "tracks" \in DOMAIN l[1]
                   THEN l[1].tracks
                   ELSE IF IsList(l[1]) THEN l[1].items ELSE <<>>
         IN  IF ft = <<>> THEN [kind |-> "nothing_to_retry", failed_tracks |-> <<>>]
             ELSE [kind |-> "found", failed_tracks |-> ft]

\* the track lists of the batch runs a retry follows: one or more of the
\* first two tracks of the catalog, a track listed twice included
RetryTrackLists ==
    UNION {[1..n -> {Catalog[1], Catalog[2]}] : n \in 1..MaxTracks}

\* the task of a track whose download_track has returned
DoneTask(name) == [NewTask EXCEPT !.pc = "done", !.counted = <<name>>]

RECURSIVE SelectIndices(_, _, _)
\* the elements of s whose index from j on is in S, in the order of s
SelectIndices(s, S, j) ==
    IF j > Len(s) THEN <<>>
    ELSE (IF j \in S THEN <<s[j]>> ELSE <<>>) \o SelectIndices(s, S, j + 1)

\* --retry-failed is started in an output directory: right after a batch run
\* whose tasks have all returned, every track completed or failed, or with
\* no batch run before it
RetryInit ==
    /\ source_priority = <<"deezer", "youtube">>
    /\ sources = <<"youtube">>
    /\ track = Track("", "", 1)
    /\ idx = 1
    /\ results = <<>>
    /\ scored = <<>>
    /\ match = <<>>
    /\ result = Returned(<<>>)
    /\ calls = <<>>
    /\ max_workers = 1
    /\ embed_metadata = TRUE
    /\ root_level = RootLevel
    /\ NoEntry
    /\ skipped = 0
    /\ \/ /\ pc = "drain"
          /\ tracks \in RetryTrackLists
          /\ \E outcome \in [DOMAIN tracks -> {"completed", "failed"}] :
              LET F == {i \in DOMAIN tracks : outcome[i] = "failed"}
                  C == DOMAIN tracks \ F
              IN  /\ task = [i \in DOMAIN tracks |-> DoneTask(outcome[i])]
                  /\ completed = Cardinality(C)
                  /\ failed = Cardinality(F)
                  /\ failed_tracks =
                        SelectIndices([i \in DOMAIN tracks |-> FailureRecord(tracks[i])],
                                      F, 1)
                  /\ disk = {Paths[CatalogIndex(tracks[i])].final : i \in C}
                  /\ tracker = {tracks[i].id : i \in C}
          /\ ledger \in {<<>>, <<StaleLedger>>}
       \/ /\ pc = "main"
          /\ tracks = <<>>
          /\ task = <<>>
          /\ completed = 0
          /\ failed = 0
          /\ failed_tracks = <<>>
          /\ \E A \in Downloaded :
              /\ disk = {Paths[k].final : k \in A}
              /\ tracker = {Catalog[k].id : k \in A}
          /\ ledger \in OldLedgers

\* the states --retry-failed can be started in: the process of the batch run
\* has written its ledger or was interrupted, or no batch run came first
RetryStarts == {"main", "saved", "save_failed", "exit_interrupted"}

\* retry_failed_downloads up to the loop: the ledger is looked for and
\* read, the records are listed and click.confirm asks whether to retry
RetryLoad ==
    /\ pc \in RetryStarts
    /\ LET r == LoadLedger(ledger)
       IN  IF r.kind = "found"
           THEN \E confirmed \in BOOLEAN :
                   /\ pc' = IF confirmed THEN "retry_loop" ELSE "declined"
                   /\ retry' = [NoRetry EXCEPT !.failed_tracks = r.failed_tracks,
                                               !.i = 1]
           ELSE /\ pc' = r.kind
                /\ retry' = NoRetry
    /\ UNCHANGED <<source_priority, sources, track, idx, results, scored, match,
                   result, calls>>
    /\ UNCHANGED <<batch_vars, albuns>>

\* spotify_client.get_track(track_url) when it does not raise
GetTrack(track_url) ==
    Catalog[CHOOSE k \in 1..Len(Catalog) : Catalog[k].spotify_url = track_url]

\* one round of `for i, track_info in enumerate(failed_tracks, 1)` up to
\* the return of multi_downloader.download inside download_track: a record
\* without url is passed over, get_track raises and the handler of the loop
\* logs it, or the track is looked up and downloaded
RetryTrack ==
    /\ pc = "retry_loop"
    /\ retry.i \in DOMAIN retry.failed_tracks
    /\ LET track_url == DictGet(retry.failed_tracks[retry.i], "url", "")
       IN  IF track_url = ""
           THEN /\ retry' = [retry EXCEPT !.i = @ + 1,
                                          !.results = Append(@, "no_url")]
                /\ pc' = pc
                /\ disk' = disk
           ELSE \E found \in BOOLEAN,
                   outs \in [1..Len(source_priority) -> SourceOutcomes] :
                   IF ~found
                   THEN /\ retry' = [retry EXCEPT
                                        !.i = @ + 1,
                                        !.results = Append(@, "lookup_raised")]
                        /\ pc' = pc
                        /\ disk' = disk
                   ELSE LET r == DownloadFrom(1, disk,
                                              CatalogIndex(GetTrack(track_url)), outs)
                        IN  /\ retry' = [retry EXCEPT !.audio_path = r.result]
                            /\ pc' = "retry_downloaded"
                            /\ disk' = r.disk
    /\ UNCHANGED <<source_priority, sources, track, idx, results, scored, match,
                   result, calls>>
    /\ UNCHANGED <<tracks, max_workers, embed_metadata, task, completed, failed,
                   skipped, failed_tracks, tracker, ledger, root_level, albuns>>

\* result[0] of download_track from `if not audio_path` on, called by one
\* thread: false when no path was returned or an exception is handled, true
\* for a skipped track and for one that is marked as downloaded
DownloadTrackSucceeds(audio_path, skip, raises, mark_raises) ==
    /\ audio_path # <<>>
    /\ raises # "before"
    /\ skip \/ (raises = "no" /\ ~mark_raises)

\* the rest of the round: download_track returns (the level of the root
\* logger is restored, the counters are those of the display of the retry)
\* and the record is appended to successfully_retried when result[0] is
\* true
RetryCheck ==
    /\ pc = "retry_downloaded"
    /\ \E raises \in RaisePoints, mark_raises \in BOOLEAN :
        LET track_info == retry.failed_tracks[retry.i]
            t == GetTrack(track_info.url)
            skip == /\ retry.audio_path # <<>>
                    /\ IsDownloaded(tracker, disk, t, retry.audio_path[1])
            success == DownloadTrackSucceeds(retry.audio_path, skip, raises,
                                             mark_raises)
        IN  /\ retry' = [retry EXCEPT
                            !.i = @ + 1,
                            !.audio_path = <<>>,
                            !.results = Append(@, IF success THEN "ok" ELSE "failed"),
                            !.successfully_retried =
                                IF success THEN Append(@, track_info) ELSE @]
            /\ tracker' = IF success /\ ~skip THEN MarkDownloaded(tracker, t)
                          ELSE tracker
    /\ pc' = "retry_loop"
    /\ UNCHANGED <<source_priority, sources, track, idx, results, scored, match,
                   result, calls>>
    /\ UNCHANGED <<tracks, max_workers, embed_metadata, task, completed, failed,
                   skipped, failed_tracks, disk, ledger, root_level, albuns>>

\* RemainingFailed keeping no record
RemainingFailedNone(ft, retried) == <<>>

\* remaining_failed = [t for t in failed_tracks if t not in successfully_retried]
RemainingFailed(ft, retried) ==
    SelectSeq(ft, LAMBDA t : \A k \in DOMAIN retried : retried[k] # t)

\* after the loop: the ledger is rewritten with the remaining records, or
\* deleted when none remains; when open() or unlink() raises, the handler of
\* retry_failed_downloads reports it and the file stays as it was
RetrySave ==
    /\ pc = "retry_loop"
    /\ retry.i > Len(retry.failed_tracks)
    /\ \E raises \in BOOLEAN :
        LET remaining_failed ==
                RemainingFailed(retry.failed_tracks, retry.successfully_retried)
        IN  /\ pc' = IF raises THEN "error_reading" ELSE "retried"
            /\ ledger' = IF raises THEN ledger
                         ELSE IF remaining_failed # <<>>
                         THEN <<FailedData(remaining_failed)>>
                         ELSE <<>>
    /\ UNCHANGED <<source_priority, sources, track, idx, results, scored, match,
                   result, calls>>
    /\ UNCHANGED <<tracks, max_workers, embed_metadata, task, completed, failed,
                   skipped, failed_tracks, disk, tracker, root_level, entry_vars>>

RetryNext ==
    \/ SaveFailed
    \/ InterruptSave
    \/ RetryLoad
    \/ RetryTrack
    \/ RetryCheck
    \/ RetrySave

RetrySpec == RetryInit /\ [][RetryNext]_vars

-----------------------------------------------------------------------------
(* process_album_list on albuns.txt: one run of main.py --album per line *)

\* the longest albuns.txt, in lines
MaxLines == 3

\* Python str.startswith
StartsWith(s, prefix) ==
    Len(s) >= Len(prefix) /\ SubSeq(s, 1, Len(prefix)) = prefix

\* f"[CONCLUÍDO] {album_url}" and f"[ERRO: {error_msg}]", the newline left out
ConcluidoLine(album_url) == "[CONCLUÍDO] " \o album_url
ErroLine(error_msg) == "[ERRO: " \o error_msg \o "]"

\* the lines of albuns.txt, without their newline and without blanks around
\* them: two album URLs, a comment, an album a former pass completed and
\* the message a former pass left
AlbumLines ==
    { "https://open.spotify.com/album/a1",
      "https://open.spotify.com/album/a2",
      "# rock",
      ConcluidoLine("https://open.spotify.com/album/a3"),
      ErroLine("Exit code: 1") }

\* the files process_album_list can find
AlbumFiles == UNION {[1..n -> AlbumLines] : n \in 0..MaxLines}

\* the test of the loop over the lines: not empty, no comment, no marker of
\* a former pass, and an album URL
IsPendingAlbum(stripped) ==
    /\ stripped # ""
    /\ ~StartsWith(stripped, "#")
    /\ ~StartsWith(stripped, "[CONCLUÍDO]")
    /\ ~StartsWith(stripped, "[ERRO:")
    /\ Contains(stripped, "open.spotify.com/album/")

RECURSIVE PendingAlbums(_, _)
\* pending_albums: the pairs (i, stripped) of the pending lines from Python
\* index i on
PendingAlbums(lines, i) ==
    IF i >= Len(lines) THEN <<>>
    ELSE (IF IsPendingAlbum(lines[i + 1]) THEN << <<i, lines[i + 1]>> >> ELSE <<>>)
         \o PendingAlbums(lines, i + 1)

\* lines[index] = value, index counted from 0
SetItem(lines, index, value) == [lines EXCEPT ![index + 1] = value]

\* lines.insert(index, value), index counted from 0
ListInsert(lines, index, value) ==
    SubSeq(lines, 1, index) \o <<value>> \o SubSeq(lines, index + 1, Len(lines))

\* what one run of main.py --album does to process_album_list: it returns
\* exit code 0 or 1, subprocess.run raises, or the user interrupts
AlbumOutcomes == {"exit0", "exit1", "exception", "interrupt"}

\* the message of the [ERRO: ...] line of an outcome
ErrorMsg(outcome) ==
    IF outcome = "exit1" THEN "Exit code: 1" ELSE "No such file or directory"

\* lines after an album is processed: the line at line_index is marked, or
\* rewritten and an error line inserted behind it
ListUpdate(lines, line_index, album_url, outcome) ==
    IF outcome = "exit0"
    THEN SetItem(lines, line_index, ConcluidoLine(album_url))
    ELSE ListInsert(SetItem(lines, line_index, album_url), line_index + 1,
                    ErroLine(ErrorMsg(outcome)))

\* --list-albuns is started in a directory with an albuns.txt
AlbumListInit ==
    /\ source_priority = <<"deezer", "youtube">>
    /\ sources = <<"youtube">>
    /\ pc = "main"
    /\ track = Track("", "", 1)
    /\ idx = 1
    /\ results = <<>>
    /\ scored = <<>>
    /\ match = <<>>
    /\ result = Returned(<<>>)
    /\ calls = <<>>
    /\ NoBatch
    /\ retry = NoRetry
    /\ \E f \in AlbumFiles : albuns = [NoAlbuns EXCEPT !.start = f, !.file = f]

\* process_album_list up to the loop: the file is read and the pending
\* albums are listed with the index of their line
ReadAlbuns ==
    /\ pc = "main"
    /\ LET pending == PendingAlbums(albuns.file, 0)
       IN  /\ albuns' = [albuns EXCEPT !.lines = albuns.file,
                                       !.pending_albums = pending,
                                       !.idx = 1]
           /\ pc' = IF pending = <<>> THEN "all_processed" ELSE "album_loop"
    /\ UNCHANGED <<source_priority, sources, track, idx, results, scored, match,
                   result, calls>>
    /\ UNCHANGED <<batch_vars, retry>>

\* one round of the loop over pending_albums: the album is downloaded by a
\* run of main.py, its line is updated, the file is written and read again;
\* on KeyboardInterrupt the lines are written as they are and the function
\* returns
ProcessAlbum ==
    /\ pc = "album_loop"
    /\ albuns.idx \in DOMAIN albuns.pending_albums
    /\ \E outcome \in AlbumOutcomes :
        LET line_index == albuns.pending_albums[albuns.idx][1]
            album_url == albuns.pending_albums[albuns.idx][2]
        IN  IF outcome = "interrupt"
            THEN /\ albuns' = [albuns EXCEPT !.file = albuns.lines]
                 /\ pc' = "album_interrupted"
            ELSE /\ albuns' =
                    [albuns EXCEPT
                        !.lines = ListUpdate(albuns.lines, line_index, album_url, outcome),
                        !.file = ListUpdate(albuns.lines, line_index, album_url, outcome),
                        !.idx = @ + 1,
                        !.codes = Append(@, outcome)]
                 /\ pc' = pc
    /\ UNCHANGED <<source_priority, sources, track, idx, results, scored, match,
                   result, calls>>
    /\ UNCHANGED <<batch_vars, retry>>

\* after the last album the summary is printed
AlbumSummary ==
    /\ pc = "album_loop"
    /\ albuns.idx > Len(albuns.pending_albums)
    /\ pc' = "album_summary"
    /\ UNCHANGED <<source_priority, sources, track, idx, results, scored, match,
                   result, calls>>
    /\ UNCHANGED <<batch_vars, entry_vars>>

AlbumListNext ==
    \/ ReadAlbuns
    \/ ProcessAlbum
    \/ AlbumSummary

AlbumListSpec == AlbumListInit /\ [][AlbumListNext]_vars

-----------------------------------------------------------------------------
(* Properties of the batch run *)

\* task i has incremented the counter name
Counted(i, name) == \E n \in DOMAIN task[i].counted : task[i].counted[n] = name

\* the tasks that have incremented the counter name
CountedAs(name) == {i \in DOMAIN task : Counted(i, name)}

\* the increments all tasks have made so far
Updates == UNION {{<<i, n>> : n \in DOMAIN task[i].counted} : i \in DOMAIN task}

\* main has left the with block the normal way: summary and ledger step
RunEnded == pc \in {"saved", "save_failed", "exit_ok", "exit_failed"}

\* the track of task i was downloaded by an earlier run: the tracker has
\* marked it and its file is on disk
Existing(i) ==
    /\ IsDownloaded(tracker, disk, tracks[i], Paths[CatalogIndex(tracks[i])].final)
    /\ ~Counted(i, "completed")

\* C11 as claimed: for a track of the batch that an earlier run has
\* downloaded no search and no fetch of any source is invoked, and its task
\* counts it as skipped and as nothing else; so at most N-K tasks make an
\* adapter call.
C11_Claimed ==
    /\ \A i \in DOMAIN task :
        Existing(i) =>
            /\ ~task[i].searched
            /\ ~task[i].fetched
            /\ task[i].pc = "done" => task[i].counted = <<"skipped">>
    /\ Cardinality({i \in DOMAIN task : task[i].searched \/ task[i].fetched})
           <= Len(task) - Cardinality({i \in DOMAIN task : Existing(i)})

\* C13 as claimed: a task increments exactly one of completed, failed and
\* skipped, once, whichever of its steps raises; no track is counted both
\* completed and failed.
C13_Claimed ==
    \A i \in DOMAIN task :
        /\ Len(task[i].counted) <= 1
        /\ task[i].pc = "done" => Len(task[i].counted) = 1
        /\ ~(Counted(i, "completed") /\ Counted(i, "failed"))

\* C14 as claimed: no update of the counters or of the failure list is lost
\* under any interleaving: once all tasks have finished, the counters add up
\* to the number of outcomes the tasks have counted (the number of tracks,
\* when every task counts once), and failed equals the length of
\* failed_tracks.
C14_Claimed ==
    (task # <<>> /\ Done = DOMAIN task) =>
        /\ completed + failed + skipped = Cardinality(Updates)
        /\ failed = Len(failed_tracks)

\* C15 as claimed: when a task has failed and the run has reached its
\* summary, every task has run to its end and is counted (each counter is
\* the number of tasks that ended that way), and every failed track is in
\* the failure list.
C15_Claimed ==
    (RunEnded /\ CountedAs("failed") # {}) =>
        /\ Done = DOMAIN task
        /\ failed = Cardinality(CountedAs("failed"))
        /\ completed = Cardinality(CountedAs("completed"))
        /\ skipped = Cardinality(CountedAs("skipped"))
        /\ \A i \in CountedAs("failed") :
            \E n \in DOMAIN failed_tracks : failed_tracks[n] = FailureRecord(tracks[i])

\* C16: at every moment the number of tasks that have started and not yet
\* finished is at most max_workers (download.max_concurrent).
C16_BoundedTasks == Cardinality(Running) <= max_workers

\* the pool is full while a further track waits in the queue
C16_Witness ==
    /\ max_workers >= 1
    /\ Cardinality(Running) = max_workers
    /\ \E i \in DOMAIN task : task[i].pc = "queued"

\* the ledger that reflects exactly this run
LedgerOfRun(l) ==
    IF CountedAs("failed") = {} THEN l = <<>>
    ELSE /\ l # <<>>
         /\ l[1].timestamp = "now"
         /\ l[1].total_failed = Cardinality(CountedAs("failed"))
         /\ Len(l[1].tracks) = Cardinality(CountedAs("failed"))
         /\ {l[1].tracks[n] : n \in DOMAIN l[1].tracks}
                = {FailureRecord(tracks[i]) : i \in CountedAs("failed")}

EveryTrackFailed ==
    \A i \in DOMAIN task :
        /\ task[i].counted # <<>>
        /\ task[i].counted[Len(task[i].counted)] = "failed"

\* C18 as claimed: a batch run in which every track failed ends with a
\* non-zero exit status, under every interleaving of the tasks.
C18_Claimed ==
    (pc \in {"exit_ok", "exit_failed"} /\ EveryTrackFailed) => ExitStatus = <<1>>

\* C19 as claimed: after a KeyboardInterrupt no task that has not started
\* is started.
C19_Claimed ==
    [][pc = "shutdown" =>
          \A i \in DOMAIN task : task[i].pc = "queued" => task'[i].pc = "queued"]_vars

\* C20: a run that aborts at run level (no source available, the catalog
\* lookup raises or returns no track) has scheduled no task, so that no
\* search or fetch is invoked, has left ledger and disk as they were and
\* exits with status 1; with no source or no track the run does abort.
C20_RunLevelAbort ==
    /\ [](pc = "aborted" => task = <<>> /\ tracks = <<>> /\ ExitStatus = <<1>>)
    /\ [](get_available_sources = <<>> => pc \in {"main", "aborted"})
    /\ [](pc \notin {"main", "idle", "aborted"} => tracks # <<>>)
    /\ [][pc' \in {"main", "idle", "aborted"} =>
              ledger' = ledger /\ disk' = disk /\ tracker' = tracker]_vars

\* the catalog lookup failed although a source was available, and the
\* ledger of the earlier run is still there
C20_Witness ==
    /\ pc = "aborted"
    /\ get_available_sources # <<>>
    /\ max_workers >= 1
    /\ ledger = <<StaleLedger>>

-----------------------------------------------------------------------------
(* Properties of download_track *)

\* task i leaves print_skip, print_error or print_success for the increment
\* of its counter
StartsCounting(i, p) == task[i].pc = p /\ task'[i].pc # p

\* no embedding for a track that is skipped or whose download returned None
NoEmbedWithoutFile ==
    \A i \in DOMAIN task :
        /\ task[i].pc = "print_skip" => task[i].embedded = <<>>
        /\ (task[i].pc = "print_error" /\ task[i].audio_path = <<>>) =>
               task[i].embedded = <<>>

\* C23 as claimed: for a track that is resolved and not skipped, embed is
\* invoked exactly once before the track is counted as completed; it is
\* never invoked for a track counted as skipped or as a resolution failure,
\* and whatever embed returns, the track goes on to be counted as completed.
C23_Claimed ==
    /\ [](NoEmbedWithoutFile)
    /\ [][\A i \in DOMAIN task :
              StartsCounting(i, "print_success") =>
                  /\ Len(task[i].embedded) = 1
                  /\ task'[i].pc = "store_success"]_vars

\* C23, amended: the same when metadata.embed_metadata is on; when it is off
\* (--no-metadata) embed is not invoked at all.
C23_EmbeddedOnce ==
    /\ [](NoEmbedWithoutFile)
    /\ [][\A i \in DOMAIN task :
              StartsCounting(i, "print_success") =>
                  /\ Len(task[i].embedded) = (IF embed_metadata THEN 1 ELSE 0)
                  /\ task'[i].pc = "store_success"]_vars

\* one track was skipped without embedding, and a track whose embedding
\* failed is about to be counted as completed
C23_Witness ==
    /\ embed_metadata
    /\ \E i, j \in DOMAIN task :
        /\ task[i].counted = <<"skipped">>
        /\ task[j].pc = "print_success"
        /\ task[j].embedded = <<FALSE>>

\* C24 as claimed: the source reported for a completed track (the source
\* print_success is given) is the source whose fetch returned the path in
\* MultiSourceDownloader.download.
C24_Claimed ==
    \A i \in DOMAIN task :
        task[i].pc \in {"print_success", "store_success", "mark"} =>
            task[i].source = task[i].fetched_from

\* the ledger is absent, or a document whose records are all records of
\* tracks that failed in this run
HoldsOnlyFailures(l) ==
    \/ l = <<>>
    \/ /\ "tracks" \in DOMAIN l[1]
       /\ \A n \in DOMAIN l[1].tracks :
            \E i \in CountedAs("failed") : l[1].tracks[n] = FailureRecord(tracks[i])

\* C27 as claimed: in a run ended by KeyboardInterrupt the ledger file is
\* left untouched or holds only tracks that failed before the interrupt, the
\* files of the tracks counted as completed are on disk, and the exit status
\* is 0.
C27_Claimed ==
    /\ [](pc = "exit_interrupted" => ExitStatus = <<0>>)
    /\ [](pc \in {"shutdown", "exit_interrupted"} =>
            \A i \in CountedAs("completed") :
                Paths[CatalogIndex(tracks[i])].final \in disk)
    /\ [][pc' \in {"shutdown", "exit_interrupted"} =>
              ledger' = ledger \/ HoldsOnlyFailures(ledger')]_vars

\* C30 as claimed: once the download_track tasks that have started have all
\* finished, the level of the root logger is the level it had before the
\* first task started.
C30_Claimed ==
    (Done # {} /\ Running = {}) => root_level = RootLevel

-----------------------------------------------------------------------------
(* Properties of the source registry *)

\* the position of a source in the list get_available_sources returns
AvailablePosition(name) ==
    CHOOSE i \in 1..Len(get_available_sources) : get_available_sources[i] = name

\* every source of the registry is named in the priority list
AllListed ==
    \A i \in 1..Len(get_available_sources) :
        \E j \in 1..Len(source_priority) : source_priority[j] = get_available_sources[i]

\* C26 as claimed: the list get_available_sources returns is in priority
\* order: its first element, which print_source_info labels PRIMARY, is the
\* first source download() calls, and the calls of download() follow the
\* order of the list (here for the configurations whose priority list
\* names every source of the registry).
C26_Claimed ==
    (calls # <<>> /\ AllListed) =>
        /\ calls[1].source = get_available_sources[1]
        /\ \A j, k \in DOMAIN calls :
            j < k => AvailablePosition(calls[j].source)
                         <= AvailablePosition(calls[k].source)

-----------------------------------------------------------------------------
(* Properties of the retry entry point *)

\* the step is the start of retry_failed_downloads: the ledger is looked
\* for and read
RetryBegins == pc \in RetryStarts /\ pc' # pc

\* the file is there and is not a JSON document
Unparsable(l) == l # <<>> /\ "text" \in DOMAIN l[1]

\* the file is there, in the old format
IsLegacy(l) == l # <<>> /\ "items" \in DOMAIN l[1]

\* the records a ledger file holds
RecordsOf(l) ==
    IF l = <<>> \/ Unparsable(l) THEN <<>>
    ELSE IF "tracks" \in DOMAIN l[1] THEN l[1].tracks
    ELSE IF "items" \in DOMAIN l[1] THEN l[1].items
    ELSE <<>>

\* the messages of a retry that found nothing to retry, and the message of
\* its exception handler
NothingToRetry == {"no_ledger", "nothing_to_retry"}
RetryReports == NothingToRetry \cup {"error_reading"}

\* a retry that has reported makes no further step, and a bare list is
\* loaded as the 'tracks' list of the same records would be
RetryStopsAndReadsLists ==
    /\ [][(pc \in RetryReports) => (pc' = pc /\ retry' = retry /\ disk' = disk)]_vars
    /\ [][RetryBegins /\ IsLegacy(ledger) /\ ledger[1].items # <<>> =>
            /\ pc' \in {"retry_loop", "declined"}
            /\ retry'.failed_tracks = ledger[1].items
            /\ retry'.failed_tracks =
                   LoadLedger(<<FailedData(ledger[1].items)>>).failed_tracks]_vars

\* C21: the retry entry point never fails on a missing, corrupt or legacy
\* ledger: when the file is absent, unparsable or holds no records it
\* reports that there is nothing to retry and attempts no download; a bare
\* list is retried as the 'tracks' list of the new format would be
C21_Claimed ==
    /\ RetryStopsAndReadsLists
    /\ [][RetryBegins /\ RecordsOf(ledger) = <<>> =>
            /\ pc' \in NothingToRetry
            /\ retry' = NoRetry
            /\ disk' = disk]_vars

\* C21 as the code has it: an absent file and a file without records are
\* reported as nothing to retry, an unparsable file is reported by the
\* exception handler as an error reading the failed downloads; no download
\* is attempted in any of the three cases
C21_Tolerant ==
    /\ RetryStopsAndReadsLists
    /\ [][RetryBegins /\ RecordsOf(ledger) = <<>> =>
            /\ pc' = (IF ledger = <<>> THEN "no_ledger"
                      ELSE IF Unparsable(ledger) THEN "error_reading"
                      ELSE "nothing_to_retry")
            /\ retry' = NoRetry
            /\ disk' = disk]_vars

\* the records of a bare list are being retried
C21_Witness ==
    /\ pc = "retry_loop"
    /\ IsLegacy(ledger)
    /\ retry.results # <<>>
    /\ retry.failed_tracks = ledger[1].items

\* the tracks of the batch run whose task counted a failure
FailedTasks == {i \in DOMAIN task : task[i].counted = <<"failed">>}

LedgerOf(recs) == IF recs = <<>> THEN <<>> ELSE <<FailedData(recs)>>

\* the positions of the loaded records whose own retry returned success
RetriedOk == {j \in DOMAIN retry.results : retry.results[j] = "ok"}

-----------------------------------------------------------------------------
(* Properties of process_album_list *)

RECURSIVE ExpectedLines(_, _, _)
\* albuns.txt after a pass with the outcomes codes, line by line from
\* position j of the file found at the start on: a pending line, the n-th,
\* becomes '[CONCLUÍDO] <url>' or is kept and followed by one '[ERRO: ...]'
\* line, every other line is kept
ExpectedLines(start, j, codes) ==
    IF j > Len(start) THEN <<>>
    ELSE IF ~IsPendingAlbum(start[j])
    THEN <<start[j]>> \o ExpectedLines(start, j + 1, codes)
    ELSE (IF codes[1] = "exit0" THEN <<ConcluidoLine(start[j])>>
          ELSE <<start[j], ErroLine(ErrorMsg(codes[1]))>>)
         \o ExpectedLines(start, j + 1, Tail(codes))

\* C28: after the pass every album URL line that was pending at the start
\* is replaced in place by '[CONCLUÍDO] <url>' (exit code 0) or kept and
\* followed by one new '[ERRO: ...]' line, and every other line is
\* unchanged, also when an earlier album of the pass failed
C28_Claimed ==
    pc = "album_summary" =>
        albuns.file = ExpectedLines(albuns.start, 1, albuns.codes)

====
